---- MODULE Spec2Model ----
(***************************************************************************)
(* SmartOffice: the speech-output scheduler (MainHub/tts_queue.py) and the *)
(* tool-call chaining loop (MainHub/tool_executor.py, MainHub/server.py,   *)
(* ToolKit/tool_manager.py), the long-polls on a speech task, the request  *)
(* orchestrator (MainHub/orchestrator.py) and the reminders table with its *)
(* daemon (Reminders/).                                                    *)
(*                                                                         *)
(* Threads of the scheduler are interleaved at the granularity of the      *)
(* statements that touch shared state (the queue, task_states under its    *)
(* lock, is_running, current_task).                                        *)
(***************************************************************************)
EXTENDS Integers, Sequences, FiniteSets, TLC

(***************************************************************************)
(* Bounds of the model.                                                    *)
(***************************************************************************)
\* number of task ids that add_to_queue may create
MaxTasks == 3
\* number of worker threads start() may create over the run
MaxWorkers == 2
\* number of shutdown sentinels stop() may leave in the queue at one time
MaxSentinels == 1

TaskIds == 1..MaxTasks
Workers == 1..MaxWorkers

\* Python's None: as a queue item (the stop sentinel), as current_task,
\* as worker_thread
NoneItem == 0

\* dict.get on a missing key of task_states
Absent == "None"

TerminalStates == {"complete", "failed", "error", "cancelled"}
TaskStateValues == {"queued", "playing"} \cup TerminalStates

VARIABLES
    \* ---- TTSQueueManager fields (tts_queue.py:25-31)
    queue,          \* self.queue: FIFO of items; an item is its task_id, or NoneItem
    is_running,     \* self.is_running
    current_task,   \* self.current_task
    task_states,    \* self.task_states: task_id -> state, Absent when no key
    worker_thread,  \* self.worker_thread: the thread start() created last
    \* ---- threads running _process_queue
    wpc,            \* where each worker thread is in _process_queue
    witem,          \* its local task_id
    wsuccess,       \* its local success / the raised exception
    \* ---- the thread calling start() and stop()
    ctl,
    \* ---- the thread calling add_to_queue then get_task_state
    cpc,            \* where it is
    ctask,          \* its local task_id
    cgiven,         \* whether the caller passed task_id itself
    \* ---- the thread calling clear_queue
    clr,            \* where it is in clear_queue
    clritem,        \* its local item
    \* ---- observation of the run (no field of the program)
    putOrder        \* task ids in the order queue.put(item) enqueued them

qvars == <<queue, is_running, current_task, task_states, worker_thread,
           wpc, witem, wsuccess, ctl, cpc, ctask, cgiven, clr, clritem,
           putOrder>>

VARIABLES
    impl,            \* which of the two implementations runs the turn
    chpc,            \* "idle", "loop" (at the while), "after" (past it), "done"
    initial_response,\* the ai_response process_tools was given
    ai_response,     \* ai_response
    final_response,  \* final_response / final_ai_response
    tool_result,     \* tool_result, NoResult for None
    iteration,       \* iteration / tool_iteration
    tool_results,    \* tool_results: the tool of each entry
    accumulated_data,\* accumulated_data of build_prompt: the tool of each entry
    messages,        \* messages / tool_messages
    follow_up,       \* follow_up / follow_up_response: the last model result
    log              \* the tool log file: one entry per execute_tool call

cvars == <<impl, chpc, initial_response, ai_response, final_response,
           tool_result, iteration, tool_results, accumulated_data, messages,
           follow_up, log>>

VARIABLES
    \* ---- the thread serving one long-poll request
    ppc,     \* "idle", "read" (about to call get_task_state), "sleep", "returned"
    pkind,   \* which long-poll it runs: wait_for_tts, tts_wait, wait_for_task
    ptask,   \* its task_id
    presult  \* what it returned

pvars == <<ppc, pkind, ptask, presult>>

VARIABLES
    \* ---- self.task_states_lock and the threads that take it
    lock,    \* the thread inside a `with self.task_states_lock` block, or NoneItem
    lat,     \* where that thread was when it entered the block
    lwait,   \* the threads blocked at the entry of a block
    spc,     \* the thread calling get_status: "idle", "read"
    status   \* the dictionary get_status is returning

lvars == <<lock, lat, lwait, spc, status>>

VARIABLES
    \* ---- the reminders table (reminder_db.py) and the daemon's pass
    reminders,   \* status column by reminder id, Absent when there is no row
    due,         \* the ids whose trigger_time has passed
    dpc,         \* the daemon in _check_reminders: "idle", "announce", "mark"
    pending,     \* its local list `pending`, what is left of it to handle
    announced,   \* the reminder ids handed to add_to_queue, in order
    cancel_true  \* the ids for which cancel_reminder has returned True

rvars == <<reminders, due, dpc, pending, announced, cancel_true>>

VARIABLES
    \* ---- two process_tools invocations and the list objects they use
    heap,       \* the list objects: list id -> the entries of the list
    tpc,        \* where each invocation is: "start", "loop", "done"
    tmessages,  \* its local `messages`: the id of a list object
    titeration, \* its local `iteration`
    tsnap       \* the entries context['history'] had when it started

tvars == <<heap, tpc, tmessages, titeration, tsnap>>

VARIABLES
    \* ---- RequestOrchestrator.process_request, one request
    opc,        \* "idle", "tools", "speech", "returned"
    history,    \* ConversationManager.history
    generated,  \* what the model answered to the initial call
    returned    \* the dictionary process_request returns

ovars == <<opc, history, generated, returned>>

\* the variables of the parts modelled apart from the scheduler's threads,
\* the chain controller and the long-poll
xvars == <<lvars, rvars, tvars, ovars>>

vars == <<qvars, cvars, pvars, xvars>>

Range(s) == {s[i] : i \in DOMAIN s}

Min(S) == CHOOSE x \in S : \A y \in S : x <= y

\* number of stop sentinels waiting in the queue
Sentinels(q) == Cardinality({i \in DOMAIN q : q[i] = NoneItem})

(***************************************************************************)
(* TTSQueueManager.__init__                                                *)
(***************************************************************************)
QueueInit ==
    /\ queue = <<>>
    /\ is_running = FALSE
    /\ current_task = NoneItem
    /\ task_states = [i \in TaskIds |-> Absent]
    /\ worker_thread = NoneItem
    /\ wpc = [w \in Workers |-> "unstarted"]
    /\ witem = [w \in Workers |-> NoneItem]
    /\ wsuccess = [w \in Workers |-> "unset"]
    /\ ctl = "idle"
    /\ cpc = "idle"
    /\ ctask = NoneItem
    /\ cgiven = FALSE
    /\ clr = "idle"
    /\ clritem = NoneItem
    /\ putOrder = <<>>

(***************************************************************************)
(* start() and stop(), called by one controlling thread                    *)
(***************************************************************************)
\* threading.Thread(target=self._process_queue).start(): the thread created
SpawnedWorker == Min({w \in Workers : wpc[w] = "unstarted"})

\* start(): a new worker thread only when is_running is false
Start ==
    /\ ctl = "idle"
    /\ IF ~is_running
       THEN /\ \E w \in Workers : wpc[w] = "unstarted"
            /\ is_running' = TRUE
            /\ wpc' = [wpc EXCEPT ![SpawnedWorker] = "check"]
            /\ worker_thread' = SpawnedWorker
       ELSE UNCHANGED <<is_running, wpc, worker_thread>>
    /\ UNCHANGED <<cvars, pvars, xvars>>
    /\ UNCHANGED <<queue, current_task, task_states, witem, wsuccess, ctl,
                   cpc, ctask, cgiven, clr, clritem, putOrder>>

\* stop(), lines 43-45: clear the flag, enqueue the sentinel
Stop ==
    /\ ctl = "idle"
    /\ Sentinels(queue) < MaxSentinels
    /\ is_running' = FALSE
    /\ queue' = Append(queue, NoneItem)
    /\ ctl' = IF worker_thread # NoneItem THEN "join" ELSE "idle"
    /\ UNCHANGED <<cvars, pvars, xvars>>
    /\ UNCHANGED <<current_task, task_states, worker_thread, wpc, witem,
                   wsuccess, cpc, ctask, cgiven, clr, clritem, putOrder>>

\* join(timeout=2) returns: the thread has ended, or the two seconds pass
\* while the thread is inside a synthesis call (every other step of the
\* worker ends within the one-second queue wait)
JoinReturns ==
    \/ wpc[worker_thread] = "exited"
    \/ wpc[worker_thread] = "speak"

StopJoin ==
    /\ ctl = "join"
    /\ JoinReturns
    /\ ctl' = "idle"
    /\ UNCHANGED <<cvars, pvars, xvars>>
    /\ UNCHANGED <<queue, is_running, current_task, task_states,
                   worker_thread, wpc, witem, wsuccess, cpc, ctask, cgiven,
                   clr, clritem, putOrder>>

(***************************************************************************)
(* add_to_queue and get_task_state                                         *)
(***************************************************************************)
\* uuid4 replaced by an id that repeats: always the first id
Uuid4Reused == Min(TaskIds)

\* uuid.uuid4(): an id no task has had
Uuid4 == Min({i \in TaskIds : task_states[i] = Absent})

\* the id add_to_queue uses: the caller's, or a generated one when None
TaskIdFor(given) == IF given = NoneItem THEN Uuid4 ELSE given

\* add_to_queue without lines 74-75: the state is not recorded before the put
AddToQueueNoState(given) ==
    /\ cpc = "idle"
    /\ Len(putOrder) < MaxTasks
    /\ given = NoneItem => \E i \in TaskIds : task_states[i] = Absent
    /\ ctask' = TaskIdFor(given)
    /\ cgiven' = (given # NoneItem)
    /\ cpc' = "put"
    /\ UNCHANGED <<cvars, pvars, xvars>>
    /\ UNCHANGED <<queue, is_running, current_task, task_states, worker_thread,
                   wpc, witem, wsuccess, ctl, clr, clritem, putOrder>>

\* add_to_queue lines 62-75: choose the id, record 'queued' under the lock
AddToQueueState(given) ==
    /\ cpc = "idle"
    /\ Len(putOrder) < MaxTasks
    /\ given = NoneItem => \E i \in TaskIds : task_states[i] = Absent
    /\ task_states' = [task_states EXCEPT ![TaskIdFor(given)] = "queued"]
    /\ ctask' = TaskIdFor(given)
    /\ cgiven' = (given # NoneItem)
    /\ cpc' = "put"
    /\ UNCHANGED <<cvars, pvars, xvars>>
    /\ UNCHANGED <<queue, is_running, current_task, worker_thread, wpc, witem,
                   wsuccess, ctl, clr, clritem, putOrder>>

\* add_to_queue called as every call site calls it: task_id left None
AddToQueue == AddToQueueState(NoneItem)

\* add_to_queue lines 78-82: enqueue the item and return the id
AddToQueuePut ==
    /\ cpc = "put"
    /\ queue' = Append(queue, ctask)
    /\ putOrder' = Append(putOrder, ctask)
    /\ cpc' = "returned"
    /\ UNCHANGED <<cvars, pvars, xvars>>
    /\ UNCHANGED <<is_running, current_task, task_states, worker_thread, wpc,
                   witem, wsuccess, ctl, ctask, cgiven, clr, clritem>>

\* what get_task_state(task_id) returns: self.task_states.get(task_id)
GetTaskStateResult(id) == task_states[id]

\* the caller of add_to_queue asks get_task_state for the id it was given
GetTaskState ==
    /\ cpc = "returned"
    /\ cpc' = "idle"
    /\ ctask' = NoneItem
    /\ cgiven' = FALSE
    /\ UNCHANGED <<cvars, pvars, xvars>>
    /\ UNCHANGED <<queue, is_running, current_task, task_states,
                   worker_thread, wpc, witem, wsuccess, ctl, clr, clritem,
                   putOrder>>

(***************************************************************************)
(* clear_queue                                                             *)
(***************************************************************************)
\* one turn of `while not self.queue.empty()`: get_nowait()
ClearGet ==
    /\ clr \in {"idle", "loop"}
    /\ IF queue = <<>>
       THEN /\ clr' = "idle"
            /\ UNCHANGED <<queue, clritem>>
       ELSE /\ queue' = Tail(queue)
            /\ IF Head(queue) = NoneItem
               THEN /\ clr' = "loop"
                    /\ UNCHANGED clritem
               ELSE /\ clr' = "mark"
                    /\ clritem' = Head(queue)
    /\ UNCHANGED <<cvars, pvars, xvars>>
    /\ UNCHANGED <<is_running, current_task, task_states, worker_thread, wpc,
                   witem, wsuccess, ctl, cpc, ctask, cgiven, putOrder>>

\* clear_queue cancelling whatever has not ended, the playing task included
ClearMarkAll ==
    /\ clr = "mark"
    /\ task_states' = [i \in TaskIds |->
                          IF task_states[i] \in {"queued", "playing"}
                          THEN "cancelled" ELSE task_states[i]]
    /\ clr' = "loop"
    /\ clritem' = NoneItem
    /\ UNCHANGED <<cvars, pvars, xvars>>
    /\ UNCHANGED <<queue, is_running, current_task, worker_thread, wpc, witem,
                   wsuccess, ctl, cpc, ctask, cgiven, putOrder>>

\* clear_queue dropping the item without recording 'cancelled'
ClearMarkSkip ==
    /\ clr = "mark"
    /\ clr' = "loop"
    /\ clritem' = NoneItem
    /\ UNCHANGED <<cvars, pvars, xvars>>
    /\ UNCHANGED <<queue, is_running, current_task, task_states, worker_thread,
                   wpc, witem, wsuccess, ctl, cpc, ctask, cgiven, putOrder>>

\* lines 103-105: under the lock, mark the item's task cancelled
ClearMark ==
    /\ clr = "mark"
    /\ task_states' = IF task_states[clritem] # Absent
                      THEN [task_states EXCEPT ![clritem] = "cancelled"]
                      ELSE task_states
    /\ clr' = "loop"
    /\ clritem' = NoneItem
    /\ UNCHANGED <<cvars, pvars, xvars>>
    /\ UNCHANGED <<queue, is_running, current_task, worker_thread, wpc,
                   witem, wsuccess, ctl, cpc, ctask, cgiven, putOrder>>

(***************************************************************************)
(* _process_queue, one thread per start()                                  *)
(***************************************************************************)
\* `while self.is_running`
WorkerCheck(w) ==
    /\ wpc[w] = "check"
    /\ wpc' = [wpc EXCEPT ![w] = IF is_running THEN "get" ELSE "exited"]
    /\ UNCHANGED <<cvars, pvars, xvars>>
    /\ UNCHANGED <<queue, is_running, current_task, task_states,
                   worker_thread, witem, wsuccess, ctl, cpc, ctask, cgiven,
                   clr, clritem, putOrder>>

\* queue.get(timeout=1): an item, the sentinel (break), or queue.Empty
WorkerGet(w) ==
    /\ wpc[w] = "get"
    /\ IF queue = <<>>
       THEN /\ wpc' = [wpc EXCEPT ![w] = "check"]
            /\ UNCHANGED <<queue, witem>>
       ELSE /\ queue' = Tail(queue)
            /\ IF Head(queue) = NoneItem
               THEN /\ wpc' = [wpc EXCEPT ![w] = "exited"]
                    /\ UNCHANGED witem
               ELSE /\ wpc' = [wpc EXCEPT ![w] = "got"]
                    /\ witem' = [witem EXCEPT ![w] = Head(queue)]
    /\ UNCHANGED <<cvars, pvars, xvars>>
    /\ UNCHANGED <<is_running, current_task, task_states, worker_thread,
                   wsuccess, ctl, cpc, ctask, cgiven, clr, clritem, putOrder>>

\* lines 128-130: under the lock, record 'playing' and current_task
WorkerPlaying(w) ==
    /\ wpc[w] = "got"
    /\ task_states' = [task_states EXCEPT ![witem[w]] = "playing"]
    /\ current_task' = witem[w]
    /\ wpc' = [wpc EXCEPT ![w] = "speak"]
    /\ UNCHANGED <<cvars, pvars, xvars>>
    /\ UNCHANGED <<queue, is_running, worker_thread, witem, wsuccess, ctl,
                   cpc, ctask, cgiven, clr, clritem, putOrder>>

\* what self.tts.speak(text) can do: return True, return False, raise
SpeakOutcomes == {"true", "false", "raise"}

\* line 136: the synthesis call ends
WorkerSpeak(w) ==
    /\ wpc[w] = "speak"
    /\ \E r \in SpeakOutcomes : wsuccess' = [wsuccess EXCEPT ![w] = r]
    /\ wpc' = [wpc EXCEPT ![w] = "update"]
    /\ UNCHANGED <<cvars, pvars, xvars>>
    /\ UNCHANGED <<queue, is_running, current_task, task_states,
                   worker_thread, witem, ctl, cpc, ctask, cgiven, clr,
                   clritem, putOrder>>

\* the except branch recording 'failed' and the soft failure 'error'
StateAfterSpeakSwapped(r) ==
    CASE r = "true"  -> "complete"
      [] r = "false" -> "error"
      [] OTHER       -> "failed"

\* the state recorded for each outcome of speak(), lines 140-152
StateAfterSpeak(r) ==
    CASE r = "true"  -> "complete"
      [] r = "false" -> "failed"
      [] OTHER       -> "error"

\* a worker whose loop ends when speak() raises
AfterItemHalts(r) == IF r = "raise" THEN "exited" ELSE "check"

\* where the loop goes after an item, whatever speak() did: back to `while`
AfterItem(r) == "check"

\* lines 139-156: under the lock, record the terminal state, clear current_task
WorkerUpdate(w) ==
    /\ wpc[w] = "update"
    /\ task_states' = [task_states EXCEPT ![witem[w]] = StateAfterSpeak(wsuccess[w])]
    /\ current_task' = NoneItem
    /\ wpc' = [wpc EXCEPT ![w] = AfterItem(wsuccess[w])]
    /\ witem' = [witem EXCEPT ![w] = NoneItem]
    /\ wsuccess' = [wsuccess EXCEPT ![w] = "unset"]
    /\ UNCHANGED <<cvars, pvars, xvars>>
    /\ UNCHANGED <<queue, is_running, worker_thread, ctl, cpc, ctask, cgiven,
                   clr, clritem, putOrder>>

WorkerStep(w) ==
    \/ WorkerCheck(w)
    \/ WorkerGet(w)
    \/ WorkerPlaying(w)
    \/ WorkerSpeak(w)
    \/ WorkerUpdate(w)


(***************************************************************************)
(* task_states_lock: the `with self.task_states_lock` blocks of            *)
(* add_to_queue, get_task_state, clear_queue, _process_queue, get_status   *)
(***************************************************************************)
\* the threads that take the lock: the workers and one caller thread for
\* add_to_queue/get_task_state, one for clear_queue, one for get_status
CallerThread == MaxWorkers + 1
ClearThread == MaxWorkers + 2
StatusThread == MaxWorkers + 3
LockThreads == Workers \cup {CallerThread, ClearThread, StatusThread}

NoStatus == [is_running |-> FALSE, queue_size |-> 0, is_speaking |-> FALSE,
             current_task |-> NoneItem, total_tasks_tracked |-> 0]

LockInit ==
    /\ lock = NoneItem
    /\ lat = "None"
    /\ lwait = {}
    /\ spc = "idle"
    /\ status = NoStatus

\* where thread t is in its code
PcOf(t) ==
    IF t \in Workers THEN wpc[t]
    ELSE IF t = CallerThread THEN cpc
    ELSE IF t = ClearThread THEN clr
    ELSE spc

\* thread t has reached the entry of a with-block: lines 128 and 139/151 of
\* the worker, 74 of add_to_queue, 86 of get_task_state, 103 of clear_queue,
\* 193 of get_status
AtWith(t) ==
    IF t \in Workers THEN wpc[t] \in {"got", "update"}
    ELSE IF t = CallerThread
    THEN \/ cpc = "returned"
         \/ /\ cpc = "idle"
            /\ Len(putOrder) < MaxTasks
            /\ \E i \in TaskIds : task_states[i] = Absent
    ELSE IF t = ClearThread THEN clr = "mark"
    ELSE spc = "idle"

\* thread t calls the lock's acquire and has to wait for it
LockRequest(t) ==
    /\ AtWith(t)
    /\ lock # t
    /\ t \notin lwait
    /\ lwait' = lwait \cup {t}
    /\ UNCHANGED <<lock, lat, spc, status>>
    /\ UNCHANGED <<qvars, cvars, pvars, rvars, tvars, ovars>>

\* the lock is free and given to one of the waiting threads
LockAcquire(t) ==
    /\ t \in lwait
    /\ lock = NoneItem
    /\ lock' = t
    /\ lat' = PcOf(t)
    /\ lwait' = lwait \ {t}
    /\ UNCHANGED <<spc, status>>
    /\ UNCHANGED <<qvars, cvars, pvars, rvars, tvars, ovars>>

\* a worker whose block stays open until speak() has returned
ReleaseDueAfterSpeak(t) ==
    /\ lock = t
    /\ PcOf(t) # lat
    /\ t \in Workers => wpc[t] # "speak"

\* thread t holds the lock and has run the statements of its block: the
\* block ends there (dedent after lines 75, 87, 105, 130, 147, 153, 200)
ReleaseDue(t) ==
    /\ lock = t
    /\ PcOf(t) # lat

\* the end of the with-block
LockRelease(t) ==
    /\ ReleaseDue(t)
    /\ lock' = NoneItem
    /\ lat' = "None"
    /\ UNCHANGED <<lwait, spc, status>>
    /\ UNCHANGED <<qvars, cvars, pvars, rvars, tvars, ovars>>

\* get_status reading the map without taking the lock
InBlockExceptStatus(t) ==
    \/ t = StatusThread /\ spc = "idle"
    \/ lock = t /\ PcOf(t) = lat

\* thread t is inside its with-block, about to run the block's statements
InBlock(t) ==
    /\ lock = t
    /\ PcOf(t) = lat

\* thread t is at a statement outside every with-block
Outside(t) ==
    /\ t \notin lwait
    /\ ~InBlock(t)
    /\ ~ReleaseDue(t)

\* the worker's statements under the lock and outside it
WorkerLocked(w) ==
    /\ InBlock(w)
    /\ WorkerPlaying(w) \/ WorkerUpdate(w)

WorkerOutside(w) ==
    /\ Outside(w)
    /\ WorkerCheck(w) \/ WorkerGet(w) \/ WorkerSpeak(w)

\* add_to_queue's and get_task_state's statements under the lock
CallerLocked ==
    /\ InBlock(CallerThread)
    /\ AddToQueue \/ GetTaskState

\* add_to_queue's queue.put
CallerOutside ==
    /\ Outside(CallerThread)
    /\ AddToQueuePut

ClearLocked ==
    /\ InBlock(ClearThread)
    /\ ClearMark

ClearOutside ==
    /\ Outside(ClearThread)
    /\ ClearGet

\* get_status lines 193-200: the dictionary built under the lock
GetStatus ==
    /\ InBlock(StatusThread)
    /\ spc = "idle"
    /\ status' = [is_running |-> is_running,
                  queue_size |-> Len(queue),
                  is_speaking |-> (current_task # NoneItem),
                  current_task |-> current_task,
                  total_tasks_tracked |->
                      Cardinality({i \in TaskIds : task_states[i] # Absent})]
    /\ spc' = "read"
    /\ UNCHANGED <<lock, lat, lwait>>
    /\ UNCHANGED <<qvars, cvars, pvars, rvars, tvars, ovars>>

\* get_status returns the dictionary to its caller
GetStatusReturn ==
    /\ spc = "read"
    /\ Outside(StatusThread)
    /\ spc' = "idle"
    /\ status' = NoStatus
    /\ UNCHANGED <<lock, lat, lwait>>
    /\ UNCHANGED <<qvars, cvars, pvars, rvars, tvars, ovars>>

(***************************************************************************)
(* The long-polls on a task: wait_for_tts (server.py), tts_wait            *)
(* (server_modular.py), TTSQueueManager.wait_for_task                      *)
(***************************************************************************)
LongPolls == {"wait_for_tts", "tts_wait", "wait_for_task"}

NoPollResult == [complete |-> FALSE, state |-> "None"]

PollInit ==
    /\ ppc = "idle"
    /\ pkind = "None"
    /\ ptask = NoneItem
    /\ presult = NoPollResult

\* a request arrives with a task id in its path
PollStart(kind, id) ==
    /\ ppc = "idle"
    /\ ppc' = "read"
    /\ pkind' = kind
    /\ ptask' = id
    /\ UNCHANGED presult
    /\ UNCHANGED <<qvars, cvars, xvars>>

\* the states each long-poll takes for the end of the task
\* (server.py:70, server_modular.py:135, tts_queue.py:183)
ReturnsOn(kind) ==
    IF kind = "wait_for_tts" THEN {"complete", "failed", "error"}
    ELSE {"complete", "failed", "error", "cancelled"}

\* the two endpoints answer for an id that has no entry; wait_for_task
\* does not (server.py:75, server_modular.py:142)
ReturnsOnUnknown(kind) == kind \in {"wait_for_tts", "tts_wait"}

\* one turn of the polling loop up to its return or its sleep; wait_for_task
\* may also give up when the caller's timeout has run out
PollRead ==
    /\ ppc = "read"
    /\ LET state == GetTaskStateResult(ptask)
       IN  IF state \in ReturnsOn(pkind)
           THEN /\ ppc' = "returned"
                /\ presult' = [complete |-> TRUE, state |-> state]
           ELSE IF state = Absent /\ ReturnsOnUnknown(pkind)
           THEN /\ ppc' = "returned"
                /\ presult' = [complete |-> TRUE, state |-> "task not found"]
           ELSE \/ /\ ppc' = "sleep"
                   /\ UNCHANGED presult
                \/ /\ pkind = "wait_for_task"
                   /\ ppc' = "returned"
                   /\ presult' = [complete |-> FALSE, state |-> "timeout"]
    /\ UNCHANGED <<pkind, ptask>>
    /\ UNCHANGED <<qvars, cvars, xvars>>

\* time.sleep(0.1), then the loop again
PollSleep ==
    /\ ppc = "sleep"
    /\ ppc' = "read"
    /\ UNCHANGED <<pkind, ptask, presult>>
    /\ UNCHANGED <<qvars, cvars, xvars>>

(***************************************************************************)
(* Reminders: ReminderDB (reminder_db.py) and ReminderDaemon's             *)
(* _check_reminders (reminder_daemon.py)                                   *)
(***************************************************************************)
\* number of rows the reminders table may get
MaxReminders == 3

ReminderIds == 1..MaxReminders

ReminderInit ==
    /\ reminders = [r \in ReminderIds |-> Absent]
    /\ due = {}
    /\ dpc = "idle"
    /\ pending = <<>>
    /\ announced = <<>>
    /\ cancel_true = {}

\* add_reminder: a new row with status 'pending'
AddReminder ==
    /\ \E r \in ReminderIds : reminders[r] = Absent
    /\ LET r == Min({x \in ReminderIds : reminders[x] = Absent})
       IN  reminders' = [reminders EXCEPT ![r] = "pending"]
    /\ UNCHANGED <<due, dpc, pending, announced, cancel_true>>
    /\ UNCHANGED <<qvars, cvars, pvars, lvars, tvars, ovars>>

\* the clock passes the trigger_time of a reminder
TimePasses(r) ==
    /\ reminders[r] # Absent
    /\ r \notin due
    /\ due' = due \cup {r}
    /\ UNCHANGED <<reminders, dpc, pending, announced, cancel_true>>
    /\ UNCHANGED <<qvars, cvars, pvars, lvars, tvars, ovars>>

\* the ids of set S as a list in ascending order (ORDER BY trigger_time)
RECURSIVE Ascending(_)
Ascending(S) ==
    IF S = {} THEN <<>> ELSE <<Min(S)>> \o Ascending(S \ {Min(S)})

\* get_pending_reminders(current_time): the rows with status 'pending' and
\* trigger_time <= current_time
GetPendingReminders ==
    Ascending({r \in ReminderIds : reminders[r] = "pending" /\ r \in due})

\* _check_reminders lines 103-106: fetch the list
CheckReminders ==
    /\ dpc = "idle"
    /\ pending' = GetPendingReminders
    /\ dpc' = IF GetPendingReminders = <<>> THEN "idle" ELSE "announce"
    /\ UNCHANGED <<reminders, due, announced, cancel_true>>
    /\ UNCHANGED <<qvars, cvars, pvars, lvars, tvars, ovars>>

\* lines 108-124: the next reminder of the list goes to the speech queue
Announce ==
    /\ dpc = "announce"
    /\ announced' = Append(announced, Head(pending))
    /\ dpc' = "mark"
    /\ UNCHANGED <<reminders, due, pending, cancel_true>>
    /\ UNCHANGED <<qvars, cvars, pvars, lvars, tvars, ovars>>

\* mark_triggered: UPDATE ... SET status = 'triggered' WHERE id = ?
MarkTriggered(row) == IF row = Absent THEN Absent ELSE "triggered"

\* line 127: mark it, then on with the for loop
MarkAndNext ==
    /\ dpc = "mark"
    /\ reminders' = [reminders EXCEPT
                        ![Head(pending)] = MarkTriggered(reminders[Head(pending)])]
    /\ pending' = Tail(pending)
    /\ dpc' = IF Tail(pending) = <<>> THEN "idle" ELSE "announce"
    /\ UNCHANGED <<due, announced, cancel_true>>
    /\ UNCHANGED <<qvars, cvars, pvars, lvars, tvars, ovars>>

\* cancel_reminder(r): UPDATE ... SET status = 'cancelled' WHERE id = ? AND
\* status = 'pending'; returns rowcount > 0
CancelReminder(r) ==
    /\ IF reminders[r] = "pending"
       THEN /\ reminders' = [reminders EXCEPT ![r] = "cancelled"]
            /\ cancel_true' = cancel_true \cup {r}
       ELSE UNCHANGED <<reminders, cancel_true>>
    /\ UNCHANGED <<due, dpc, pending, announced>>
    /\ UNCHANGED <<qvars, cvars, pvars, lvars, tvars, ovars>>

(***************************************************************************)
(* Model output texts and the tool-call extractor                          *)
(* (ToolManager.parse_and_execute_from_response)                           *)
(***************************************************************************)
\* A text is a sequence of tokens: prose free of braces and of the word
\* "tool"; a well-formed object {"tool": name, "parameters": {...}} (with
\* name "" when the object's tool value is empty or null); a stray '{', a
\* stray '}', a stray "tool".
Prose == [k |-> "prose", tool |-> "", params |-> {}]
Call(name, ps) == [k |-> "call", tool |-> name, params |-> ps]
LBrace == [k |-> "lbrace", tool |-> "", params |-> {}]
RBrace == [k |-> "rbrace", tool |-> "", params |-> {}]
ToolKey == [k |-> "toolkey", tool |-> "", params |-> {}]

\* the texts the model collaborator can return
ModelOutputs == {"plain", "malformed", "noName", "weather", "note",
                 "noteMissing", "reminder", "unknown", "twoCalls",
                 "braceProse"}

TextTokens(t) ==
    CASE t = "plain"       -> <<Prose>>
      [] t = "malformed"   -> <<Prose, LBrace, ToolKey, Prose, RBrace>>
      [] t = "noName"      -> <<Prose, Call("", {})>>
      [] t = "weather"     -> <<Prose, Call("get_weather", {"location"})>>
      [] t = "note"        -> <<Call("post_note", {"text"})>>
      [] t = "noteMissing" -> <<Call("post_note", {})>>
      [] t = "reminder"    -> <<Call("set_reminder", {"time_description"}), Prose>>
      [] t = "unknown"     -> <<Prose, Call("does_not_exist", {}), Prose>>
      [] t = "twoCalls"    -> <<Call("get_weather", {"location"}), Prose,
                                Call("post_note", {"text"})>>
      [] t = "braceProse"  -> <<Prose, LBrace, Prose, RBrace, Prose,
                                Call("get_weather", {"location"})>>
      [] OTHER             -> <<>>

\* the characters of a token that matter to the pattern \{.*"tool".*\}
TokenChars(tok) ==
    CASE tok.k = "call"    -> <<"{", "T", "}">>
      [] tok.k = "lbrace"  -> <<"{">>
      [] tok.k = "rbrace"  -> <<"}">>
      [] tok.k = "toolkey" -> <<"T">>
      [] OTHER             -> <<"p">>

\* the text as characters, each remembering its token and its place in it
RECURSIVE Flatten(_, _)
Flatten(toks, i) ==
    IF i > Len(toks) THEN <<>>
    ELSE [j \in 1..Len(TokenChars(toks[i])) |->
             [c |-> TokenChars(toks[i])[j], tok |-> i, at |-> j,
              last |-> (j = Len(TokenChars(toks[i])))]]
         \o Flatten(toks, i + 1)

\* re.search(r'\{.*"tool".*\}', response, re.DOTALL): the positions where the
\* leftmost match can start
MatchStarts(cs) ==
    {i \in DOMAIN cs :
        /\ cs[i].c = "{"
        /\ \E j \in DOMAIN cs : /\ j > i
                                /\ cs[j].c = "T"
                                /\ \E e \in DOMAIN cs : e > j /\ cs[e].c = "}"}

\* both .* are greedy: the match ends at the last '}' of the text
MatchEnd(cs) == CHOOSE e \in DOMAIN cs :
                    /\ cs[e].c = "}"
                    /\ \A f \in DOMAIN cs : cs[f].c = "}" => f <= e

NoCall == [found |-> FALSE, tool |-> "", params |-> {}]

\* the extractor without the `if tool_name:` test of line 225
ExtractIgnoringName(t) ==
    LET toks == TextTokens(t)
        cs == Flatten(toks, 1)
    IN  IF MatchStarts(cs) = {} THEN NoCall
        ELSE LET s == Min(MatchStarts(cs))
                 e == MatchEnd(cs)
             IN  IF /\ cs[s].tok = cs[e].tok
                    /\ toks[cs[s].tok].k = "call"
                    /\ cs[s].at = 1
                    /\ cs[e].last
                 THEN [found |-> TRUE, tool |-> toks[cs[s].tok].tool,
                       params |-> toks[cs[s].tok].params]
                 ELSE NoCall

\* json.loads(json_match.group()) then tool_call.get('tool'): the matched
\* span parses only when it is exactly one well-formed object
ExtractToolCall(t) ==
    LET toks == TextTokens(t)
        cs == Flatten(toks, 1)
    IN  IF MatchStarts(cs) = {} THEN NoCall
        ELSE LET s == Min(MatchStarts(cs))
                 e == MatchEnd(cs)
             IN  IF /\ cs[s].tok = cs[e].tok
                    /\ toks[cs[s].tok].k = "call"
                    /\ cs[s].at = 1
                    /\ cs[e].last
                    /\ toks[cs[s].tok].tool # ""
                 THEN [found |-> TRUE, tool |-> toks[cs[s].tok].tool,
                       params |-> toks[cs[s].tok].params]
                 ELSE NoCall

\* the call the parser finds in each text the model can return (and in the
\* empty text of a failed model call)
ParsedCall == [t \in ModelOutputs \cup {""} |-> ExtractToolCall(t)]

(***************************************************************************)
(* The tool registry and ToolManager.execute_tool                          *)
(***************************************************************************)
Tools == {"get_weather", "post_note", "set_reminder"}

\* get_tool_type() of each tool
ToolType(name) == IF name = "get_weather" THEN "retrieval" ELSE "action"

\* get_parameters()['required'] of each tool
Required(name) ==
    CASE name = "get_weather"  -> {}
      [] name = "post_note"    -> {"text"}
      [] name = "set_reminder" -> {"time_description"}

\* what a tool body can do: return a value reporting success ("ok"), return
\* a value reporting success=false after catching its own fault ("soft"),
\* raise ("raise")
BodyOutcomes == {"ok", "soft", "raise"}

\* no tool_result (parse_and_execute_from_response returned None)
NoResult == [success |-> FALSE, tool |-> "None", tool_type |-> "None",
             result |-> "None", error |-> "None"]

\* str(e) of the ValueError validate_parameters raises for parameter p
MissingParameterError(p) ==
    CASE p = "text"             -> "Missing required parameter: text"
      [] p = "time_description" -> "Missing required parameter: time_description"
      [] OTHER                  -> "Missing required parameter"

\* the first required parameter the call leaves out (each tool requires at
\* most one)
FirstMissing(name, params) == CHOOSE p \in Required(name) \ params : TRUE

\* execute_tool calling the body before it validates the parameters
ExecuteToolUnvalidated(name, params, body) ==
    IF name \notin Tools
    THEN [success |-> FALSE, tool |-> "None", tool_type |-> "None",
          result |-> "None", error |-> "not found"]
    ELSE IF body = "raise"
    THEN [success |-> FALSE, tool |-> name, tool_type |-> ToolType(name),
          result |-> "None", error |-> "fault"]
    ELSE [success |-> TRUE, tool |-> name, tool_type |-> ToolType(name),
          result |-> body, error |-> "None"]

\* execute_tool whose except branch reports the fault without the tool's kind
ExecuteToolFaultUntyped(name, params, body) ==
    IF name \notin Tools
    THEN [success |-> FALSE, tool |-> "None", tool_type |-> "None",
          result |-> "None", error |-> "not found"]
    ELSE IF ~(Required(name) \subseteq params)
    THEN [success |-> FALSE, tool |-> name, tool_type |-> ToolType(name),
          result |-> "None",
          error |-> MissingParameterError(FirstMissing(name, params))]
    ELSE IF body = "raise"
    THEN [success |-> FALSE, tool |-> name, tool_type |-> "None",
          result |-> "None", error |-> "fault"]
    ELSE [success |-> TRUE, tool |-> name, tool_type |-> ToolType(name),
          result |-> body, error |-> "None"]

\* execute_tool copying the body's own error next to the payload
ExecuteToolErrorWithPayload(name, params, body) ==
    IF name \notin Tools
    THEN [success |-> FALSE, tool |-> "None", tool_type |-> "None",
          result |-> "None", error |-> "not found"]
    ELSE IF ~(Required(name) \subseteq params)
    THEN [success |-> FALSE, tool |-> name, tool_type |-> ToolType(name),
          result |-> "None",
          error |-> MissingParameterError(FirstMissing(name, params))]
    ELSE IF body = "raise"
    THEN [success |-> FALSE, tool |-> name, tool_type |-> ToolType(name),
          result |-> "None", error |-> "fault"]
    ELSE [success |-> TRUE, tool |-> name, tool_type |-> ToolType(name),
          result |-> body,
          error |-> IF body = "soft" THEN "fault" ELSE "None"]

\* the dictionary execute_tool returns; a missing key reads "None"
ExecuteTool(name, params, body) ==
    IF name \notin Tools
    THEN [success |-> FALSE, tool |-> "None", tool_type |-> "None",
          result |-> "None", error |-> "not found"]
    ELSE IF ~(Required(name) \subseteq params)
    THEN [success |-> FALSE, tool |-> name, tool_type |-> ToolType(name),
          result |-> "None",
          error |-> MissingParameterError(FirstMissing(name, params))]
    ELSE IF body = "raise"
    THEN [success |-> FALSE, tool |-> name, tool_type |-> ToolType(name),
          result |-> "None", error |-> "fault"]
    ELSE [success |-> TRUE, tool |-> name, tool_type |-> ToolType(name),
          result |-> body, error |-> "None"]

\* whether execute_tool reaches tool.execute(**parameters)
BodyInvoked(name, params) == name \in Tools /\ Required(name) \subseteq params

\* what execute_tool appends to the log file for one call: the START block
\* (tool, parameters), the "Executing..." line written once validation has
\* passed, the "Success:" line with the body's own success flag, and the
\* closing ERROR / EXCEPTION / EXECUTION COMPLETE line
LogEntry(name, params, body) ==
    [tool |-> name, params |-> params,
     executing |-> BodyInvoked(name, params),
     success_line |-> IF BodyInvoked(name, params) /\ body # "raise"
                      THEN (IF body = "ok" THEN "True" ELSE "False")
                      ELSE "None",
     outcome |-> IF name \notin Tools THEN "ERROR"
                 ELSE IF ~(Required(name) \subseteq params) \/ body = "raise"
                      THEN "EXCEPTION"
                      ELSE "EXECUTION COMPLETE"]

\* the parser taking any span the pattern matches for a call, parsed or not
ParseAndExecuteLenient(t, body) ==
    LET call == ParsedCall[t]
    IN  IF call.found THEN ExecuteTool(call.tool, call.params, body)
        ELSE IF MatchStarts(Flatten(TextTokens(t), 1)) # {}
        THEN ExecuteTool("", {}, body)
        ELSE NoResult

\* parse_and_execute_from_response(response): the tool result, or NoResult
ParseAndExecute(t, body) ==
    LET call == ParsedCall[t]
    IN  IF call.found THEN ExecuteTool(call.tool, call.params, body)
        ELSE NoResult

\* execute_tool returning on its not-found path before it opens the log
ParseAndExecuteLogKnownOnly(t, body) ==
    LET call == ParsedCall[t]
    IN  IF call.found /\ call.tool \in Tools
        THEN <<LogEntry(call.tool, call.params, body)>>
        ELSE <<>>

\* the log lines that call of parse_and_execute_from_response writes
ParseAndExecuteLog(t, body) ==
    LET call == ParsedCall[t]
    IN  IF call.found THEN <<LogEntry(call.tool, call.params, body)>>
        ELSE <<>>

\* the tool-body behaviours that make a difference for text t
BodyChoices(t) ==
    LET call == ParsedCall[t]
    IN  IF call.found /\ BodyInvoked(call.tool, call.params)
        THEN (IF call.tool = "set_reminder" THEN BodyOutcomes ELSE {"ok", "raise"})
        ELSE {"ok"}


(***************************************************************************)
(* The chain controller: ToolExecutor.process_tools / _execute_tool_chain  *)
(* (impl = "executor") and the same loop written inline in build_prompt    *)
(* of server.py (impl = "server").                                         *)
(***************************************************************************)
\* ToolExecutor(max_iterations=5); max_tool_iterations = 5 in build_prompt
max_iterations == 5


\* context['history'] / conversation_history when the turn starts
History == <<[role |-> "user", k |-> "text", v |-> "earlier question", ok |-> TRUE],
             [role |-> "assistant", k |-> "text", v |-> "plain", ok |-> TRUE]>>

UserMessage == [role |-> "user", k |-> "text", v |-> "user_prompt", ok |-> TRUE]

\* final texts: a model output verbatim, a fixed string, a tool's message
TextOf(t) == [k |-> "text", v |-> t, ok |-> TRUE]
Trouble == [k |-> "trouble", v |-> "I had trouble processing the information.", ok |-> FALSE]

\* result.get('message', 'Timer set') of a set_reminder result
ReminderMessage(res) ==
    IF res.result = "ok"
    THEN [k |-> "message", v |-> "Reminder set", ok |-> TRUE]
    ELSE [k |-> "message", v |-> "Timer set", ok |-> TRUE]

\* the feedback text built from a tool result
RetrievalFeedback(res) ==
    [k |-> IF res.success THEN "retrieved" ELSE "tool failed", v |-> res.tool,
     ok |-> res.success]
ActionFeedback(res) ==
    [k |-> IF res.success THEN "action completed" ELSE "action failed",
     v |-> res.tool, ok |-> res.success]

Feedback(res) ==
    IF res.tool_type = "retrieval" THEN RetrievalFeedback(res)
    ELSE ActionFeedback(res)

\* an assistant entry that leaves the model output out
AssistantMessageEmpty(t) == [role |-> "assistant", k |-> "text", v |-> "", ok |-> TRUE]

AssistantMessage(t) == [role |-> "assistant", k |-> "text", v |-> t, ok |-> TRUE]
SystemMessage(f) == [role |-> "system", k |-> f.k, v |-> f.v, ok |-> f.ok]

\* what model_caller.call_model returns: failure, or success with a text
ModelResults ==
    {[success |-> FALSE, response |-> ""]}
    \cup {[success |-> TRUE, response |-> t] : t \in ModelOutputs}

\* follow_up before any model call of the chain
NoModelCall == [success |-> TRUE, response |-> ""]

NoFinal == [body |-> TextOf(""), note |-> FALSE, listed |-> <<>>]
Final(b) == [body |-> b, note |-> FALSE, listed |-> <<>>]

ChainInit ==
    /\ impl \in {"executor", "server"}
    /\ chpc = "idle"
    /\ initial_response = ""
    /\ ai_response = ""
    /\ final_response = NoFinal
    /\ tool_result = NoResult
    /\ iteration = 0
    /\ tool_results = <<>>
    /\ accumulated_data = <<>>
    /\ messages = <<>>
    /\ follow_up = NoModelCall
    /\ log = <<>>

\* process_tools lines 45-57 and _execute_tool_chain lines 67-74
\* (build_prompt lines 126-138): the initial parse and dispatch
ProcessTools(t0, body) ==
    /\ chpc = "idle"
    /\ initial_response' = t0
    /\ ai_response' = t0
    /\ final_response' = Final(TextOf(t0))
    /\ tool_result' = ParseAndExecute(t0, body)
    /\ log' = log \o ParseAndExecuteLog(t0, body)
    /\ iteration' = 0
    /\ tool_results' = <<>>
    /\ accumulated_data' = <<>>
    /\ IF ParseAndExecute(t0, body) = NoResult /\ impl = "executor"
       THEN /\ chpc' = "done"
            /\ messages' = <<>>
       ELSE /\ chpc' = "loop"
            /\ messages' = Append(History, UserMessage)
    /\ UNCHANGED <<impl, follow_up>>
    /\ UNCHANGED <<qvars, pvars, xvars>>

\* the loop condition written with <= in place of <
LoopContinuesOffByOne == tool_result # NoResult /\ iteration <= max_iterations

\* the loop condition `while tool_result and iteration < self.max_iterations`
LoopContinues == tool_result # NoResult /\ iteration < max_iterations

\* the final text when the model call of a feedback round fails
\* (tool_executor.py:145 and 177; server.py:209 and 269)
ModelFailureText(res) ==
    IF res.tool_type = "retrieval" THEN Trouble
    ELSE IF impl = "executor" THEN ActionFeedback(res)
    ELSE TextOf(ai_response)

\* set_reminder's short cut (tool_executor.py:88, server.py:217)
ShortCircuits(res) ==
    res.tool_type = "action" /\ res.tool = "set_reminder" /\ res.success

\* _handle_retrieval_tool / _handle_action_tool and what the loop does with
\* their return value: feedback, one model call m, parse and dispatch again
FeedbackRound(m, body) ==
    /\ messages' = messages \o <<AssistantMessage(ai_response),
                                 SystemMessage(Feedback(tool_result))>>
    /\ follow_up' = m
    /\ IF m.success
       THEN /\ ai_response' = m.response
            /\ final_response' = Final(TextOf(m.response))
            /\ log' = log \o ParseAndExecuteLog(m.response, body)
            /\ IF ParseAndExecute(m.response, body) # NoResult
               THEN /\ tool_result' = ParseAndExecute(m.response, body)
                    /\ chpc' = "loop"
               ELSE /\ tool_result' = IF impl = "executor" THEN tool_result
                                      ELSE NoResult
                    /\ chpc' = "after"
       ELSE /\ final_response' = Final(ModelFailureText(tool_result))
            /\ chpc' = "after"
            /\ UNCHANGED <<ai_response, tool_result, log>>

\* one turn of the while loop
ChainIterate(m, body) ==
    /\ chpc = "loop"
    /\ LoopContinues
    /\ iteration' = iteration + 1
    /\ tool_results' = Append(tool_results, tool_result.tool)
    /\ accumulated_data' =
          IF impl = "server" /\ tool_result.tool_type = "retrieval"
             /\ tool_result.success
          THEN Append(accumulated_data, tool_result.tool)
          ELSE accumulated_data
    /\ IF ShortCircuits(tool_result)
       THEN /\ final_response' = Final(ReminderMessage(tool_result))
            /\ chpc' = IF impl = "executor" THEN "done" ELSE "after"
            /\ tool_result' = IF impl = "executor" THEN tool_result ELSE NoResult
            /\ UNCHANGED <<ai_response, messages, follow_up, log>>
       ELSE IF tool_result.tool_type \in {"retrieval", "action"}
       THEN FeedbackRound(m, body)
       ELSE \* a result without tool_type (tool not found): neither branch
            /\ chpc' = IF impl = "executor" THEN "after" ELSE "loop"
            /\ UNCHANGED <<ai_response, final_response, tool_result,
                           messages, follow_up, log>>
    /\ UNCHANGED <<impl, initial_response>>
    /\ UNCHANGED <<qvars, pvars, xvars>>

\* a chain that ends at the cap without saying so
WithNoteDropped(f) == f

\* the note appended after the loop (tool_executor.py:105-107,
\* server.py:273-280)
WithNote(f) ==
    [body |-> f.body, note |-> TRUE,
     listed |-> IF impl = "server" THEN accumulated_data ELSE <<>>]

\* a controller that returns only from a handler's break, never when the
\* loop condition itself ends the loop
ChainFinishOnlyAfter ==
    /\ chpc = "after"
    /\ final_response' = IF iteration >= max_iterations
                         THEN WithNote(final_response)
                         ELSE final_response
    /\ chpc' = "done"
    /\ UNCHANGED <<impl, initial_response, ai_response, tool_result,
                   iteration, tool_results, accumulated_data, messages,
                   follow_up, log>>
    /\ UNCHANGED <<qvars, pvars, xvars>>

\* past the loop: the iteration check and the return
ChainFinish ==
    /\ \/ chpc = "after"
       \/ chpc = "loop" /\ ~LoopContinues
    /\ final_response' = IF iteration >= max_iterations
                         THEN WithNote(final_response)
                         ELSE final_response
    /\ chpc' = "done"
    /\ UNCHANGED <<impl, initial_response, ai_response, tool_result,
                   iteration, tool_results, accumulated_data, messages,
                   follow_up, log>>
    /\ UNCHANGED <<qvars, pvars, xvars>>

(***************************************************************************)
(* Two concurrent process_tools invocations of one ToolExecutor: the list  *)
(* objects behind context['history'] and behind each `messages`            *)
(***************************************************************************)
Turns == {1, 2}

\* the list object both invocations are given as context['history']
HistoryList == 1

\* the list object the caller's history would share with `messages` if
\* line 73 took context['history'] itself
SameList(t) == HistoryList

\* the list object context.get('history', []).copy() creates in turn t
CopiedList(t) == HistoryList + t

ListIds == {HistoryList} \cup {CopiedList(t) : t \in Turns}

\* entries of the lists: who wrote it (0: the conversation so far, or the
\* turn), its role, the feedback round it belongs to
Entry(t, role, k) == [turn |-> t, role |-> role, round |-> k]

TurnsInit ==
    /\ heap = [l \in ListIds |->
                  IF l = HistoryList
                  THEN <<Entry(0, "user", 0), Entry(0, "assistant", 0)>>
                  ELSE <<>>]
    /\ tpc = [t \in Turns |-> "start"]
    /\ tmessages = [t \in Turns |-> NoneItem]
    /\ titeration = [t \in Turns |-> 0]
    /\ tsnap = [t \in Turns |-> <<>>]

\* _execute_tool_chain lines 67-74: messages = history.copy(), then the
\* user prompt appended to messages
TurnStart(t) ==
    /\ tpc[t] = "start"
    /\ LET m == CopiedList(t)
           copied == [heap EXCEPT ![m] = heap[HistoryList]]
       IN  /\ heap' = [copied EXCEPT ![m] = Append(copied[m], Entry(t, "user", 0))]
           /\ tmessages' = [tmessages EXCEPT ![t] = m]
    /\ tsnap' = [tsnap EXCEPT ![t] = heap[HistoryList]]
    /\ tpc' = [tpc EXCEPT ![t] = "loop"]
    /\ UNCHANGED titeration
    /\ UNCHANGED <<qvars, cvars, pvars, lvars, rvars, ovars>>

\* one turn of the while loop with a feedback round (lines 76-103,
\* 129-130, 160-162): two entries appended to messages, the model called;
\* again is whether the handler returned a tuple
TurnRound(t, again) ==
    /\ tpc[t] = "loop"
    /\ titeration[t] < max_iterations
    /\ titeration' = [titeration EXCEPT ![t] = titeration[t] + 1]
    /\ heap' = [heap EXCEPT ![tmessages[t]] =
                   heap[tmessages[t]]
                       \o <<Entry(t, "assistant", titeration[t] + 1),
                            Entry(t, "system", titeration[t] + 1)>>]
    /\ tpc' = [tpc EXCEPT ![t] = IF again THEN "loop" ELSE "done"]
    /\ UNCHANGED <<tmessages, tsnap>>
    /\ UNCHANGED <<qvars, cvars, pvars, lvars, rvars, ovars>>

\* the loop condition ends the loop (lines 76, 105-109)
TurnCapped(t) ==
    /\ tpc[t] = "loop"
    /\ titeration[t] >= max_iterations
    /\ tpc' = [tpc EXCEPT ![t] = "done"]
    /\ UNCHANGED <<heap, tmessages, titeration, tsnap>>
    /\ UNCHANGED <<qvars, cvars, pvars, lvars, rvars, ovars>>

\* the caller goes on with its own list while the turns run: an exchange
\* of another request appended to it
CallerAppends ==
    /\ Len(heap[HistoryList]) < 4
    /\ heap' = [heap EXCEPT ![HistoryList] =
                   heap[HistoryList]
                       \o <<Entry(0, "user", 1), Entry(0, "assistant", 1)>>]
    /\ UNCHANGED <<tpc, tmessages, titeration, tsnap>>
    /\ UNCHANGED <<qvars, cvars, pvars, lvars, rvars, ovars>>

NextTurns ==
    \/ \E t \in Turns : TurnStart(t)
    \/ \E t \in Turns : \E again \in BOOLEAN : TurnRound(t, again)
    \/ \E t \in Turns : TurnCapped(t)
    \/ CallerAppends

(***************************************************************************)
(* RequestOrchestrator.process_request (orchestrator.py), with             *)
(* ResponseGenerator.generate, ConversationManager.add_exchange and        *)
(* TTSManager.queue_speech                                                 *)
(***************************************************************************)
\* ConversationManager(max_history=20)
max_history == 20

NoReturn == [status |-> "None", ai_response |-> NoFinal, task_id |-> NoneItem]

RequestInit ==
    /\ opc = "idle"
    /\ history = History
    /\ generated = NoModelCall
    /\ returned = NoReturn

\* steps 1-2: get_context, generate; generate raises when the model call
\* failed and the except branch of process_request returns status 'error'
Generate(m) ==
    /\ opc = "idle"
    /\ generated' = m
    /\ IF m.success
       THEN /\ opc' = "tools"
            /\ UNCHANGED returned
       ELSE /\ opc' = "returned"
            /\ returned' = [status |-> "error", ai_response |-> NoFinal,
                            task_id |-> NoneItem]
    /\ UNCHANGED history
    /\ UNCHANGED <<qvars, cvars, pvars, lvars, rvars, tvars>>

\* step 3: process_tools on the generated text, up to its return
RequestTools ==
    /\ opc = "tools"
    /\ \/ \E b \in BodyChoices(generated.response) :
              ProcessTools(generated.response, b)
       \/ \E m \in ModelResults : \E b \in BodyChoices(m.response) :
              ChainIterate(m, b)
       \/ ChainFinish

\* add_exchange appending the assistant entry only
ExchangeWithoutUser(h, final) ==
    LET appended == Append(h, [role |-> "assistant", content |-> final])
    IN  IF Len(appended) > max_history * 2
        THEN SubSeq(appended, Len(appended) - max_history * 2 + 1, Len(appended))
        ELSE appended

\* add_exchange(user_prompt, ai_response): the history afterwards
Exchange(h, final) ==
    LET appended == h \o <<[role |-> "user", content |-> "user_prompt"],
                           [role |-> "assistant", content |-> final]>>
    IN  IF Len(appended) > max_history * 2
        THEN SubSeq(appended, Len(appended) - max_history * 2 + 1, Len(appended))
        ELSE appended

\* step 4: conversation.add_exchange(user_prompt, final_response)
AddExchange ==
    /\ opc = "tools"
    /\ chpc = "done"
    /\ history' = Exchange(history, final_response)
    /\ opc' = "speech"
    /\ UNCHANGED <<generated, returned>>
    /\ UNCHANGED <<qvars, cvars, pvars, lvars, rvars, tvars>>

\* step 5: tts.queue_speech(final_response), which calls add_to_queue
QueueSpeech ==
    /\ opc = "speech"
    /\ AddToQueue \/ AddToQueuePut

\* step 6: the success dictionary
RequestReturn ==
    /\ opc = "speech"
    /\ cpc = "returned"
    /\ returned' = [status |-> "success", ai_response |-> final_response,
                    task_id |-> ctask]
    /\ opc' = "returned"
    /\ UNCHANGED <<history, generated>>
    /\ UNCHANGED <<qvars, cvars, pvars, lvars, rvars, tvars>>

NextRequest ==
    \/ \E m \in ModelResults : Generate(m)
    \/ RequestTools
    \/ AddExchange
    \/ QueueSpeech
    \/ RequestReturn

(***************************************************************************)
(* Specifications                                                          *)
(***************************************************************************)
Init ==
    /\ QueueInit
    /\ ChainInit
    /\ PollInit
    /\ LockInit
    /\ ReminderInit
    /\ TurnsInit
    /\ RequestInit

\* the scheduler, with ids generated by add_to_queue
NextQueue ==
    \/ Start
    \/ Stop
    \/ StopJoin
    \/ AddToQueue
    \/ AddToQueuePut
    \/ GetTaskState
    \/ ClearGet
    \/ ClearMark
    \/ \E w \in Workers : WorkerCheck(w)
    \/ \E w \in Workers : WorkerGet(w)
    \/ \E w \in Workers : WorkerPlaying(w)
    \/ \E w \in Workers : WorkerSpeak(w)
    \/ \E w \in Workers : WorkerUpdate(w)

\* the scheduler alone: the chain controller stays idle
InitQueue == Init /\ impl = "executor"

SpecQueue == InitQueue /\ [][NextQueue]_vars

\* the chain controller, one user turn
NextChain ==
    \/ \E t \in ModelOutputs : \E b \in BodyChoices(t) : ProcessTools(t, b)
    \/ \E m \in ModelResults : \E b \in BodyChoices(m.response) : ChainIterate(m, b)
    \/ ChainFinish

SpecChain == Init /\ [][NextChain]_vars

\* one user turn in which every model call and every tool call returns:
\* the controller's thread always takes its next step
LiveChain == Init /\ [][NextChain]_vars /\ WF_vars(NextChain)

\* add_to_queue called with a task_id of the caller's choosing
AddToQueueSupplied == \E given \in TaskIds : AddToQueueState(given)

\* the scheduler used with and without caller-supplied ids
NextSupplied ==
    \/ NextQueue
    \/ AddToQueueSupplied

SpecSupplied == InitQueue /\ [][NextSupplied]_vars

\* the scheduler while nobody calls stop(): the thread scheduler lets every
\* runnable thread (the worker, the caller inside add_to_queue, clear_queue)
\* take its next step
NextLive ==
    \/ Start
    \/ AddToQueue
    \/ AddToQueuePut
    \/ GetTaskState
    \/ ClearGet
    \/ ClearMark
    \/ \E w \in Workers : WorkerStep(w)

LiveQueue ==
    /\ InitQueue
    /\ [][NextLive]_vars
    /\ \A w \in Workers : WF_vars(WorkerStep(w))
    /\ WF_vars(AddToQueuePut)
    /\ WF_vars(ClearMark)

\* the scheduler (nobody calls stop()) with one long-poll request
NextPoll ==
    \/ NextLive
    \/ \E kind \in LongPolls : \E id \in TaskIds : PollStart(kind, id)
    \/ PollRead
    \/ PollSleep

SpecPoll == InitQueue /\ [][NextPoll]_vars

\* the scheduler with stop() and start(), every worker thread taking its
\* next step (speak() returns or raises, get() returns or times out)
LiveStop ==
    /\ InitQueue
    /\ [][NextQueue]_vars
    /\ \A w \in Workers : WF_vars(WorkerStep(w))

\* the scheduler with stop() and start(), every thread that is inside a call
\* taking its next step: the workers, add_to_queue's put, clear_queue's mark
LiveRestart ==
    /\ InitQueue
    /\ [][NextQueue]_vars
    /\ \A w \in Workers : WF_vars(WorkerStep(w))
    /\ WF_vars(AddToQueuePut)
    /\ WF_vars(ClearMark)

\* the scheduler (nobody calls stop()) with the lock's acquire and release
\* as steps of their own
NextLock ==
    \/ Start
    \/ \E t \in LockThreads : LockRequest(t)
    \/ \E t \in LockThreads : LockAcquire(t)
    \/ \E t \in LockThreads : LockRelease(t)
    \/ \E w \in Workers : WorkerLocked(w)
    \/ \E w \in Workers : WorkerOutside(w)
    \/ CallerLocked
    \/ CallerOutside
    \/ ClearLocked
    \/ ClearOutside
    \/ GetStatus
    \/ GetStatusReturn

SpecLock == InitQueue /\ [][NextLock]_vars

\* the statements of whichever thread is inside its with-block
LockedStep ==
    \/ \E w \in Workers : WorkerLocked(w)
    \/ CallerLocked
    \/ ClearLocked
    \/ GetStatus

\* the same, the thread inside a with-block running its statements and
\* leaving the block, and a caller-side thread that waits for the lock
\* getting it when it is free again and again; nothing is assumed of
\* speak(): the synthesis call may last for ever
LiveLock ==
    /\ InitQueue
    /\ [][NextLock]_vars
    /\ SF_vars(LockAcquire(CallerThread))
    /\ SF_vars(LockAcquire(ClearThread))
    /\ WF_vars(\E t \in LockThreads : LockRelease(t))
    /\ WF_vars(LockedStep)

\* the reminders table used by set_reminder, by a cancelling caller and by
\* the daemon thread
NextReminders ==
    \/ AddReminder
    \/ \E r \in ReminderIds : TimePasses(r)
    \/ CheckReminders
    \/ Announce
    \/ MarkAndNext
    \/ \E r \in ReminderIds : CancelReminder(r)

SpecReminders == InitQueue /\ [][NextReminders]_vars

\* two concurrent turns on one ToolExecutor
SpecTurns == InitQueue /\ [][NextTurns]_vars

\* one request through the orchestrator
SpecRequest == InitQueue /\ [][NextRequest]_vars

Next == NextQueue \/ NextChain

Spec == Init /\ [][Next]_vars


(***************************************************************************)
(* Properties of the scheduler (TTSQueueManager)                           *)
(***************************************************************************)
Playing == {i \in TaskIds : task_states[i] = "playing"}

\* C2: at every instant at most one task has state 'playing'.
C2_AtMostOnePlaying == Cardinality(Playing) <= 1

\* the changes of a recorded state the scheduler is meant to make
AllowedTransitions ==
    {<<"queued", "playing">>, <<"playing", "complete">>,
     <<"playing", "failed">>, <<"playing", "error">>,
     <<"queued", "cancelled">>}

C4_PlayedInSubmissionOrder ==
    \A i, j \in DOMAIN putOrder :
        (i < j /\ task_states[putOrder[j]] = "playing") =>
            /\ task_states[putOrder[i]] # "playing"
            /\ task_states[putOrder[i]] = "queued" => clritem = putOrder[i]

\* C5: while the worker is running, every submitted task eventually reaches
\* complete, failed or error (or cancelled, if clear_queue removed it),
\* whatever speak() did for the tasks before it.
C5_EveryTaskEnds ==
    \A i \in TaskIds :
        (is_running /\ task_states[i] = "queued")
            ~> (task_states[i] \in TerminalStates)

C5_Witness ==
    /\ task_states[1] = "error"
    /\ task_states[2] = "failed"
    /\ task_states[3] = "complete"
    /\ is_running

C8_QueuedOrPlaying ==
    cpc = "returned" => GetTaskStateResult(ctask) \in {"queued", "playing"}

\* C8: right after add_to_queue returned, get_task_state of the returned id
\* never yields None: it yields one of the six recorded states.
C8_NeverUnknown ==
    cpc = "returned" =>
        GetTaskStateResult(ctask) \in
            {"queued", "playing", "complete", "failed", "error", "cancelled"}

C8_Witness ==
    /\ cpc = "returned"
    /\ GetTaskStateResult(ctask) = "playing"

TurnOutputs ==
    {initial_response, ai_response}
    \cup {messages[i].v : i \in {j \in DOMAIN messages :
                                    /\ j > Len(History) + 1
                                    /\ messages[j].role = "assistant"}}

\* a text that is one tool call to a registered tool other than set_reminder
NonTerminatingCall(t) ==
    \E i \in DOMAIN TextTokens(t) :
        /\ TextTokens(t)[i].k = "call"
        /\ TextTokens(t)[i].tool \in Tools \ {"set_reminder"}
        /\ \A j \in DOMAIN TextTokens(t) : TextTokens(t)[j].k = "call" => j = i

\* C1: when every model output of a turn holds a tool call to a tool that
\* is not self-terminating, the chain ends with the max-iterations note
\* after exactly max_iterations tool dispatches.
C1_ExactlyMaxDispatches ==
    (/\ chpc = "done"
     /\ follow_up.success
     /\ \A t \in TurnOutputs : NonTerminatingCall(t))
        => /\ final_response.note
           /\ Len(log) = max_iterations

\* a text holding a tool call: an object that names a tool
HasToolCall(t) ==
    \E i \in DOMAIN TextTokens(t) :
        TextTokens(t)[i].k = "call" /\ TextTokens(t)[i].tool # ""

\* C10: when the initial model output holds no tool call, the turn ends
\* with that output verbatim, no tool dispatched and no model call made.
C10_NoCallVerbatim ==
    (chpc = "done" /\ ~HasToolCall(initial_response))
        => /\ final_response = Final(TextOf(initial_response))
           /\ log = <<>>
           /\ tool_results = <<>>
           /\ follow_up = NoModelCall
           /\ \A i \in DOMAIN messages : messages[i].role # "system"

C10_Witness ==
    /\ chpc = "done"
    /\ impl = "executor"
    /\ initial_response = "malformed"
    /\ final_response = Final(TextOf("malformed"))

\* C11: when a model re-invocation returns text with no tool call, the chain
\* ends with that text verbatim as final text and no note, at any iteration.
C11_AnswerVerbatim ==
    (/\ chpc = "done"
     /\ follow_up # NoModelCall
     /\ follow_up.success
     /\ ~HasToolCall(follow_up.response))
        => final_response = Final(TextOf(follow_up.response))

\* C12: when the loop stops at the iteration cap with a tool result still
\* pending, the final text is the last model output with the note appended.
C12_TruncationAnnotated ==
    [][(/\ chpc = "loop"
        /\ chpc' = "done"
        /\ tool_result # NoResult
        /\ iteration >= max_iterations)
           => /\ final_response'.note
              /\ final_response'.body = TextOf(ai_response)]_vars

C12_Witness ==
    /\ chpc = "done"
    /\ iteration = max_iterations
    /\ Len(log) = max_iterations + 1
    /\ final_response.note
    /\ final_response.body = TextOf(ai_response)
    /\ HasToolCall(ai_response)

\* C13: the note appended at max_iterations names every tool dispatched in
\* the turn.
C13_NoteNamesEveryTool ==
    (chpc = "done" /\ final_response.note /\ follow_up.success)
        => \A i \in DOMAIN log : log[i].tool \in Range(final_response.listed)

\* C14: when a model re-invocation reports failure, the chain ends with the
\* one fixed apology string as final text, whatever the kind of the tool
\* just dispatched and whatever the iteration.
C14_ModelFailureApology ==
    (chpc = "done" /\ ~follow_up.success) => final_response = Final(Trouble)

\* C15: a successful set_reminder dispatch ends the chain at once: no
\* feedback, no model call and no dispatch follows, the tool's message is
\* the final text and stays it; as first call of the turn it leaves exactly
\* one dispatch and no model re-invocation.
C15_ReminderShortCircuit ==
    /\ [][(/\ chpc = "loop"
           /\ iteration' = iteration + 1
           /\ ShortCircuits(tool_result))
              => /\ chpc' \in {"after", "done"}
                 /\ log' = log
                 /\ messages' = messages
                 /\ follow_up' = follow_up
                 /\ final_response' =
                        [body |-> [k |-> "message",
                                   v |-> IF tool_result.result = "ok"
                                         THEN "Reminder set" ELSE "Timer set",
                                   ok |-> TRUE],
                         note |-> FALSE, listed |-> <<>>]]_vars
    /\ [][(chpc = "after" /\ final_response.body.k = "message")
              => final_response' = final_response]_vars
    /\ []((/\ chpc = "done"
           /\ final_response.body.k = "message"
           /\ tool_results = <<"set_reminder">>)
              => (Len(log) = 1 /\ follow_up = NoModelCall))

\* C16: after a dispatch that does not short-circuit the chain, failed
\* dispatches included, and below the iteration cap, the controller appends
\* feedback about the result before it decides the final text.
C16_FeedbackAfterEveryDispatch ==
    [][(/\ chpc = "loop"
        /\ iteration' = iteration + 1
        /\ ~ShortCircuits(tool_result))
           => /\ Len(messages') = Len(messages) + 2
              /\ messages'[Len(messages')].role = "system"
              /\ messages'[Len(messages')].v = log[Len(log)].tool]_vars

\* C17: the result of a dispatch to a name that is not registered has
\* success=false and an error saying the tool was not found, no tool body
\* ran, and the result carries the tool name and a kind.
C17_UnknownToolResult ==
    (/\ tool_result # NoResult
     /\ log # <<>>
     /\ log[Len(log)].tool \notin {"get_weather", "post_note", "set_reminder"})
        => /\ ~tool_result.success
           /\ tool_result.error = "not found"
           /\ ~log[Len(log)].executing
           /\ tool_result.tool = log[Len(log)].tool
           /\ tool_result.tool_type \in {"retrieval", "action"}

\* the log entry of the dispatch that produced tool_result
LastDispatch == log[Len(log)]

\* C18: a dispatch to a registered tool that leaves out a required
\* parameter returns success=false with an error naming that parameter, and
\* the tool body is not invoked.
C18_MissingParameter ==
    (tool_result # NoResult /\ log # <<>>) =>
        /\ (LastDispatch.tool = "post_note" /\ "text" \notin LastDispatch.params)
              => /\ ~tool_result.success
                 /\ tool_result.error = "Missing required parameter: text"
                 /\ tool_result.result = "None"
                 /\ ~LastDispatch.executing
        /\ (/\ LastDispatch.tool = "set_reminder"
            /\ "time_description" \notin LastDispatch.params)
              => /\ ~tool_result.success
                 /\ tool_result.error =
                        "Missing required parameter: time_description"
                 /\ tool_result.result = "None"
                 /\ ~LastDispatch.executing

C18_Witness ==
    /\ Len(log) = 2
    /\ LastDispatch.tool = "post_note"
    /\ LastDispatch.params = {}
    /\ tool_result.error = "Missing required parameter: text"

\* C19: a tool body that faults on valid parameters yields success=false
\* with the fault as error and the tool's declared kind; a body that returns
\* yields success=true with the returned value as payload and the tool's
\* declared kind.
C19_FaultCaughtSuccessWrapped ==
    (tool_result # NoResult /\ log # <<>>) =>
        LET kind == IF LastDispatch.tool = "get_weather"
                    THEN "retrieval" ELSE "action"
        IN  /\ (LastDispatch.executing /\ LastDispatch.outcome = "EXCEPTION")
                  => /\ ~tool_result.success
                     /\ tool_result.error = "fault"
                     /\ tool_result.tool = LastDispatch.tool
                     /\ tool_result.tool_type = kind
            /\ LastDispatch.outcome = "EXECUTION COMPLETE"
                  => /\ tool_result.success
                     /\ tool_result.result =
                            (IF LastDispatch.success_line = "True"
                             THEN "ok" ELSE "soft")
                     /\ tool_result.tool = LastDispatch.tool
                     /\ tool_result.tool_type = kind

C19_Witness ==
    /\ Len(log) = 2
    /\ log[1].outcome = "EXECUTION COMPLETE"
    /\ LastDispatch.executing
    /\ LastDispatch.outcome = "EXCEPTION"
    /\ tool_result.error = "fault"
    /\ tool_result.tool_type = "retrieval"

\* C20: every result of execute_tool has a payload exactly when success is
\* true and an error exactly when success is false.
C20_PayloadIffSuccess ==
    tool_result # NoResult =>
        /\ (tool_result.result # "None") <=> tool_result.success
        /\ (tool_result.error # "None") <=> ~tool_result.success

C20_Witness ==
    /\ tool_result.success
    /\ tool_result.result = "soft"
    /\ tool_result.error = "None"
    /\ Len(log) = 2
    /\ log[1].outcome = "EXCEPTION"

\* whether execute_tool is called for text t
Dispatches(t) == ParsedCall[t].found

\* the model output the parser is given in a step: the initial output when
\* the turn starts, the text of a successful re-invocation in a feedback round
ParsedInStep ==
    IF chpc = "idle" /\ chpc' # "idle" THEN <<initial_response'>>
    ELSE IF Len(messages') = Len(messages) + 2 /\ follow_up'.success
    THEN <<follow_up'.response>>
    ELSE <<>>

\* C21: every call of execute_tool, whatever its outcome, leaves one entry
\* in the audit log with the tool name, the parameters and an outcome line:
\* each step adds as many log entries as it made dispatches and keeps the
\* earlier ones.
C21_EveryDispatchLogged ==
    [][LET calls == SelectSeq(ParsedInStep, Dispatches)
       IN  /\ Len(log') = Len(log) + Len(calls)
           /\ SubSeq(log', 1, Len(log)) = log
           /\ calls # <<>> =>
                 /\ log'[Len(log')].tool = ParsedCall[calls[1]].tool
                 /\ log'[Len(log')].params = ParsedCall[calls[1]].params
                 /\ log'[Len(log')].outcome \in
                        {"ERROR", "EXCEPTION", "EXECUTION COMPLETE"}]_vars

C21_Witness ==
    /\ chpc = "done"
    /\ Len(log) = 3
    /\ log[1].outcome = "EXECUTION COMPLETE"
    /\ log[2].outcome = "EXCEPTION"
    /\ log[3].outcome = "ERROR"

\* the well-formed tool-call objects of a text
CallsIn(t) ==
    {i \in DOMAIN TextTokens(t) :
        TextTokens(t)[i].k = "call" /\ TextTokens(t)[i].tool # ""}

\* C22: an initial output made of prose around exactly one well-formed
\* tool-call object, wherever the object sits, dispatches exactly that tool
\* with exactly those parameters.
C22_SingleCallExtracted ==
    (/\ chpc # "idle"
     /\ Cardinality(CallsIn(initial_response)) = 1
     /\ \A i \in DOMAIN TextTokens(initial_response) :
           TextTokens(initial_response)[i].k # "toolkey")
        => LET call == TextTokens(initial_response)[
                           CHOOSE i \in CallsIn(initial_response) : TRUE]
           IN  /\ log # <<>>
               /\ log[1].tool = call.tool
               /\ log[1].params = call.params

\* C23: an initial output with two or more well-formed tool-call objects
\* dispatches exactly one call, the first one in the text.
C23_FirstOfSeveralCalls ==
    (chpc = "done" /\ Cardinality(CallsIn(initial_response)) >= 2)
        => LET first == TextTokens(initial_response)[
                            Min(CallsIn(initial_response))]
           IN  /\ log # <<>>
               /\ log[1].tool = first.tool
               /\ log[1].params = first.params

\* a text without any well-formed tool-call object: no "tool" key at all,
\* or a brace span with the key that does not parse
NoObject(t) == \A i \in DOMAIN TextTokens(t) : TextTokens(t)[i].k # "call"

\* C24: for a text with no "tool" key or with a malformed match the parser
\* returns None and dispatches nothing; the text becomes the final text,
\* and process_tools returns at once when it was the initial output.
C24_NoKeyOrMalformedIsNoCall ==
    /\ [][(chpc = "idle" /\ chpc' # "idle" /\ NoObject(initial_response'))
             => /\ tool_result' = NoResult
                /\ log' = <<>>
                /\ final_response' = Final(TextOf(initial_response'))
                /\ impl = "executor" => chpc' = "done"]_vars
    /\ [][(/\ Len(messages') = Len(messages) + 2
           /\ chpc = "loop"
           /\ follow_up'.success
           /\ NoObject(follow_up'.response))
             => /\ log' = log
                /\ chpc' = "after"
                /\ final_response' = Final(TextOf(follow_up'.response))]_vars

C24_Witness ==
    /\ chpc = "after"
    /\ iteration = 2
    /\ follow_up.success
    /\ follow_up.response = "malformed"
    /\ Len(log) = 2

\* C25: the iteration counter never exceeds max_iterations and the model
\* is re-invoked at most max_iterations times in a turn.
C25_IterationCap ==
    /\ iteration <= max_iterations
    /\ Cardinality({i \in DOMAIN messages : messages[i].role = "system"})
           <= max_iterations

C25_Witness ==
    /\ chpc = "done"
    /\ iteration = max_iterations
    /\ Cardinality({i \in DOMAIN messages : messages[i].role = "system"})
           = max_iterations

\* C26: every turn ends: whatever the model outputs and the tool and model
\* outcomes, process_tools reaches its return with a final text.
C26_TurnTerminates == <>[](chpc = "done" /\ final_response # NoFinal)

C26_Witness ==
    /\ chpc = "done"
    /\ impl = "server"
    /\ initial_response = "unknown"
    /\ iteration = max_iterations


(***************************************************************************)
(* Properties of the long-polls and of the worker thread's life            *)
(***************************************************************************)
\* C27: a long-poll on a submitted task (wait_for_tts, tts_wait,
\* wait_for_task) returns once the task's state is terminal, for each of
\* complete, failed, error and cancelled: a turn of its loop that reads a
\* terminal state returns that state; and it reports completion only for a
\* task that is neither queued nor playing.
C27_LongPollReturnsOnTerminal ==
    /\ [][(/\ ppc = "read"
           /\ ppc' # "read"
           /\ task_states[ptask] \in TerminalStates)
             => /\ ppc' = "returned"
                /\ presult'.complete
                /\ presult'.state = task_states[ptask]]_vars
    /\ [][(ppc' = "returned" /\ ppc # "returned" /\ presult'.complete)
             => task_states[ptask] \notin {"queued", "playing"}]_vars

\* the worker threads inside _process_queue
InLoop == {w \in Workers : wpc[w] \notin {"unstarted", "exited"}}

\* C28: at every instant at most one worker thread is executing the
\* queue-draining loop, whatever start() and stop() calls were made.
C28_AtMostOneWorkerInLoop == Cardinality(InLoop) <= 1

\* C29: after stop() is called, the worker that was in its loop eventually
\* leaves it (every speak() returning, every get() returning or timing out).
C29_WorkerLeavesAfterStop ==
    \A w \in Workers :
        (w \in InLoop /\ ~is_running) ~> (wpc[w] = "exited")

\* C30: is_speaking() is true exactly when some task is 'playing', and
\* current_task is then the id of the playing task (None otherwise).
C30_SpeakingIffPlaying ==
    /\ (current_task # NoneItem) <=> (Playing # {})
    /\ current_task # NoneItem => Playing = {current_task}


(***************************************************************************)
(* Properties of the feedback rounds and of what a dispatch leads to       *)
(***************************************************************************)
SystemEntries == {i \in DOMAIN messages : messages[i].role = "system"}

\* C34: each feedback round appends exactly two entries to messages, first
\* the assistant entry with the model output that held the call, then the
\* system entry with the feedback for that call's result, and calls the
\* model; nothing appended before is removed or reordered, so after k rounds
\* the list is the history, the user prompt and 2k entries.
C34_RoundAppendsPair ==
    /\ [](messages # <<>> =>
            /\ SubSeq(messages, 1, Len(History) + 1) = Append(History, UserMessage)
            /\ Len(messages) = Len(History) + 1 + 2 * Cardinality(SystemEntries))
    /\ [][(chpc # "idle" /\ messages' # messages) =>
            /\ Len(messages') = Len(messages) + 2
            /\ SubSeq(messages', 1, Len(messages)) = messages
            /\ ParsedCall[ai_response].found
            /\ messages'[Len(messages) + 1].role = "assistant"
            /\ messages'[Len(messages) + 1].v = ai_response
            /\ messages'[Len(messages) + 2].role = "system"
            /\ messages'[Len(messages) + 2].v = tool_result.tool
            /\ messages'[Len(messages) + 2].ok = tool_result.success
            /\ tool_result.tool = ParsedCall[ai_response].tool
            /\ follow_up' \in ModelResults]_vars

C34_Witness ==
    /\ chpc = "done"
    /\ Len(messages) = Len(History) + 1 + 2 * max_iterations
    /\ messages[Len(History) + 2].v = "weather"
    /\ messages[Len(messages)].k = "action completed"

\* the dispatches of the turn that ran a registered tool
RegisteredDispatches == {i \in DOMAIN log : log[i].tool \in Tools}

\* C35: every tool dispatched in a turn has its result consumed: fed back
\* to the model in a feedback entry, or used as the final text.
C35_EveryResultConsumed ==
    chpc = "done" =>
        Cardinality(RegisteredDispatches)
            = Cardinality(SystemEntries)
              + (IF final_response.body.k = "message" THEN 1 ELSE 0)

\* C36: a set_reminder confirmation is the final text only when the tool's
\* own returned value reported success.
C36_ConfirmationOnlyWhenStored ==
    (chpc = "done" /\ final_response.body.k = "message") =>
        /\ log # <<>>
        /\ log[Len(log)].tool = "set_reminder"
        /\ log[Len(log)].success_line = "True"

\* C37: after stop() and a later start() the manager serves again: every
\* task queued while it is running after the restart reaches a terminal
\* state (unless stop() is called again).
C37_ServiceResumesAfterRestart ==
    \A i \in TaskIds :
        (/\ wpc[MaxWorkers] # "unstarted"
         /\ is_running
         /\ task_states[i] = "queued")
            ~> (task_states[i] \in TerminalStates \/ ~is_running)


(***************************************************************************)
(* Properties of the task-state lock                                       *)
(***************************************************************************)
\* the threads of the caller-side operations add_to_queue, get_task_state
\* and clear_queue
CallerSide == {CallerThread, ClearThread}

\* C31: caller-side operations never block on the worker: no worker holds
\* the lock when its synthesis call ends, and add_to_queue, get_task_state
\* and clear_queue, once they wait for the lock, get it, run and release it
\* even if the synthesis call in flight never returns.
C31_CallersNeverBlockOnWorker ==
    /\ [][\A w \in Workers :
            (wpc[w] = "speak" /\ wpc'[w] = "update") => lock # w]_vars
    /\ \A t \in CallerSide :
            (t \in lwait) ~> (t \notin lwait /\ lock # t)

C31_Witness ==
    /\ wpc[1] = "speak"
    /\ task_states[1] = "playing"
    /\ lock = ClearThread
    /\ lat = "mark"
    /\ CallerThread \in lwait

\* C32: every read and every write of the task-state map, by add_to_queue,
\* get_task_state, clear_queue, get_status and the worker, is made by the
\* thread that holds task_states_lock.
C32_MapAccessUnderLock ==
    /\ [][task_states' # task_states =>
            /\ lock # NoneItem
            /\ lock' = lock
            /\ PcOf(lock) = lat
            /\ (PcOf(lock))' # lat]_vars
    /\ [][(cpc = "returned" /\ cpc' = "idle") =>
            (lock = CallerThread /\ lock' = lock)]_vars
    /\ [][(spc = "idle" /\ spc' = "read") =>
            (lock = StatusThread /\ lock' = lock)]_vars

C32_Witness ==
    /\ lock = StatusThread
    /\ spc = "read"
    /\ status.total_tasks_tracked = MaxTasks
    /\ status.is_speaking
    /\ Cardinality({i \in TaskIds : task_states[i] = "cancelled"}) = 1


(***************************************************************************)
(* Properties of the reminders                                             *)
(***************************************************************************)
\* C39: a reminder whose cancel_reminder call returned True is never
\* afterwards marked 'triggered' and never announced, and a reminder's
\* status only moves pending->triggered or pending->cancelled.
C39_CancelledNeverTriggered ==
    /\ [][\A r \in ReminderIds :
            reminders'[r] # reminders[r] =>
                \/ reminders[r] = Absent /\ reminders'[r] = "pending"
                \/ /\ reminders[r] = "pending"
                   /\ reminders'[r] \in {"triggered", "cancelled"}]_vars
    /\ [][\A r \in cancel_true :
            /\ reminders'[r] # "triggered"
            /\ announced' # announced =>
                   announced'[Len(announced')] # r]_vars


(***************************************************************************)
(* Properties of concurrent turns and of a whole request                   *)
(***************************************************************************)
\* the entries turn t has appended after k feedback rounds
RECURSIVE Pairs(_, _)
Pairs(t, k) ==
    IF k = 0 THEN <<>>
    ELSE Pairs(t, k - 1) \o <<Entry(t, "assistant", k), Entry(t, "system", k)>>

\* C33: chain state is never shared across turns: with two process_tools
\* invocations running concurrently, each one's messages holds only the
\* history snapshot it was given, its own user prompt and its own
\* assistant/feedback pairs, and the caller's history list stays as it was.
C33_ChainStateNotShared ==
    /\ \A i \in DOMAIN heap[HistoryList] : heap[HistoryList][i].turn = 0
    /\ \A t \in Turns :
          tmessages[t] # NoneItem =>
              /\ heap[tmessages[t]] =
                     tsnap[t] \o <<Entry(t, "user", 0)>> \o Pairs(t, titeration[t])
              /\ \A u \in Turns \ {t} : tmessages[u] # tmessages[t]

C33_Witness ==
    /\ tsnap[1] # tsnap[2]
    /\ tpc[1] = "loop"
    /\ tpc[2] = "loop"
    /\ titeration[1] = 2
    /\ titeration[2] = 1

\* C38: if the initial model call of a request fails, process_request
\* returns status 'error', leaves the history unchanged, dispatches no tool
\* and submits no speech task; if it succeeds, the request returns status
\* 'success' with exactly one user/assistant exchange appended to the
\* history and exactly one speech task submitted.
C38_RequestOutcome ==
    /\ (opc = "returned" /\ ~generated.success) =>
          /\ returned.status = "error"
          /\ history = History
          /\ log = <<>>
          /\ putOrder = <<>>
          /\ \A i \in TaskIds : task_states[i] = Absent
    /\ (opc = "returned" /\ generated.success) =>
          /\ returned.status = "success"
          /\ history = History \o <<[role |-> "user", content |-> "user_prompt"],
                                    [role |-> "assistant",
                                     content |-> returned.ai_response]>>
          /\ returned.ai_response = final_response
          /\ Len(putOrder) = 1
          /\ returned.task_id = putOrder[1]
          /\ Cardinality({i \in TaskIds : task_states[i] # Absent}) = 1
    /\ opc \in {"idle", "tools"} => (history = History /\ putOrder = <<>>)

C38_Witness ==
    /\ opc = "returned"
    /\ returned.status = "success"
    /\ Len(log) = 2
    /\ returned.task_id = 1

====
